---- MODULE Spec2Model ----
(***************************************************************************)
(* negroni-gzip: the gzip middleware handler and its gzipResponseWriter.   *)
(*                                                                         *)
(* The repository holds two revisions of the package:                      *)
(*   "sub"  : src/gzip/gzip.go     (compressContent, no WriteHeader        *)
(*            override, deferred Content-Length delete)                    *)
(*   "root" : src/unnamed/part_001 (WriteHeader override that takes the    *)
(*            decision and deletes Content-Length)                         *)
(* impl selects the revision a behaviour runs.  One behaviour is one       *)
(* request/response cycle: ServeHTTP is entered, the next handler makes a  *)
(* sequence of calls on the writer it was given, next returns and the      *)
(* deferred function of ServeHTTP runs.                                    *)
(***************************************************************************)
EXTENDS Integers, Sequences, FiniteSets, TLC

VARIABLES
    impl,       \* which revision of the package runs
    req,        \* r.Header of the inbound request: [ae, ws]
    h,          \* the handler: [compressionLevel, allowCompression]
    pc,         \* "start" | "next" | "done": position inside ServeHTTP
    arg,        \* the writer next was called with: "none" | "w" | "grw"
    nextCalls,  \* how many times ServeHTTP has called next
    status,     \* grw.status
    header,     \* w.Header(), shared by w, nrw and grw
    header0,    \* w.Header() as it was when ServeHTTP was entered
    gz,         \* the gzip.Writer gz (grw.w)
    w,          \* the original http.ResponseWriter handed to ServeHTTP
    nrw,        \* the negroni.ResponseWriter wrapping w
    allowLog,   \* results of the allowCompression calls made so far
    mut,        \* header mutations made by the package's own code, in order
    written,    \* chunks the next handler has passed to Write, in order
    ncalls,     \* number of calls the next handler has made on its writer
    lastCall,   \* the last call the next handler made: "Set" | "WriteHeader" | "Write"
    wret,       \* what the last Write call returned to next: [n, err]
    sinkLog,    \* the Write calls gz and nrw received, with what each returned
    panicked,   \* whether next has panicked
    wcalled     \* whether next has called Write or WriteHeader on its writer

vars == <<impl, req, h, pc, arg, nextCalls, status, header, header0, gz, w, nrw,
          allowLog, mut, written, ncalls, lastCall, wret, sinkLog, panicked,
          wcalled>>

----------------------------------------------------------------------------
(* Bounds of the model *)

\* the next handler makes at most MaxCalls calls on its writer
MaxCalls == 4

----------------------------------------------------------------------------
(* Constants of the package *)

encodingGzip == "gzip"

headerAcceptEncoding == "Accept-Encoding"
headerContentEncoding == "Content-Encoding"
headerContentLength == "Content-Length"
headerContentType == "Content-Type"
headerVary == "Vary"
headerSecWebSocketKey == "Sec-WebSocket-Key"

BestCompression == 9
DefaultCompression == -1

COMPRESSION_UNDEFINED == 0
COMPRESSION_CHECK == 0
COMPRESSION_DISABLED == 1
COMPRESSION_ENABLED == 2

gzipInvalidCompressionLevel == 11
gzipTestWebSocketKey == "Test"

StatusOK == 200

----------------------------------------------------------------------------
(* Strings and header maps *)

\* The bytes of the strings that strings.Contains is applied to.
Chars(s) ==
    CASE s = "" -> << >>
      [] s = "br" -> <<"b", "r">>
      [] s = "gzip" -> <<"g", "z", "i", "p">>
      [] s = "br, gzip" -> <<"b", "r", ",", " ", "g", "z", "i", "p">>

\* strings.Contains(s, substr)
Contains(s, substr) ==
    LET a == Chars(s)
        b == Chars(substr)
    IN \E i \in 0..(Len(a) - Len(b)) : SubSeq(a, i + 1, i + Len(b)) = b

ResponseHeaders ==
    {headerContentEncoding, headerContentLength, headerContentType, headerVary}

\* http.Header.Get: "" when the key is absent
Get(hd, k) == hd[k]
\* http.Header.Set
Set(hd, k, v) == [hd EXCEPT ![k] = v]
\* http.Header.Del
Del(hd, k) == [hd EXCEPT ![k] = ""]

\* Header().Set / Header().Del made by the package's own code, logged in mut
hSet(c, k, v) ==
    [c EXCEPT !.header = Set(@, k, v), !.mut = Append(@, <<"Set", k>>)]
hDel(c, k) ==
    [c EXCEPT !.header = Del(@, k), !.mut = Append(@, <<"Del", k>>)]

----------------------------------------------------------------------------
(* The response side of one cycle, as one record, so that the code's       *)
(* statements compose in order.                                            *)

\* sret is what the sink called last returned; fail tells whether the sink
\* written to in the current call returns an error
Ctx ==
    [status |-> status, header |-> header, gz |-> gz, w |-> w, nrw |-> nrw,
     allowLog |-> allowLog, mut |-> mut, ret |-> wret, sinkLog |-> sinkLog,
     sret |-> [n |-> 0, err |-> "nil"], fail |-> FALSE]

Commit(c) ==
    /\ status' = c.status
    /\ header' = c.header
    /\ gz' = c.gz
    /\ w' = c.w
    /\ nrw' = c.nrw
    /\ allowLog' = c.allowLog
    /\ mut' = c.mut
    /\ wret' = c.ret
    /\ sinkLog' = c.sinkLog

----------------------------------------------------------------------------
(* Collaborators: the original http.ResponseWriter, negroni.ResponseWriter,*)
(* compress/gzip and http.DetectContentType, by their documented contracts *)

\* w.WriteHeader(code): the first call sends the status line with the
\* headers as they are now; later calls are superfluous and ignored.
rawWriteHeader(c, code) ==
    LET c1 == [c EXCEPT !.w.whCalls = @ + 1]
    IN IF c.w.wroteHeader
       THEN c1
       ELSE [c1 EXCEPT !.w.wroteHeader = TRUE, !.w.code = code,
                       !.w.sent = c.header]

\* w.Write(b): commits the headers with StatusOK if none were committed,
\* then appends b to the body and returns (len(b), nil); a failing write
\* appends nothing and returns (0, err).
rawWrite(c, tok) ==
    LET c1 == IF c.w.wroteHeader
              THEN c
              ELSE [c EXCEPT !.w.wroteHeader = TRUE, !.w.code = StatusOK,
                             !.w.sent = c.header]
    IN IF c.fail
       THEN [c1 EXCEPT !.sret = [n |-> 0, err |-> "EIO"]]
       ELSE [c1 EXCEPT !.w.body = Append(@, tok),
                       !.sret = [n |-> Len(tok.d), err |-> "nil"]]

\* the record of a Write call received by sink to, with what it returned
logSink(c, to) ==
    [c EXCEPT !.sinkLog = Append(@, [to |-> to, n |-> c.sret.n,
                                     err |-> c.sret.err])]

\* negroni.ResponseWriter.WriteHeader: records the status, forwards to w
nrwWriteHeader(c, code) ==
    rawWriteHeader([c EXCEPT !.nrw.status = code], code)

\* negroni.ResponseWriter.Write: WriteHeader(StatusOK) unless Written()
nrwWrite(c, b) ==
    LET c1 == IF c.nrw.status = 0 THEN nrwWriteHeader(c, StatusOK) ELSE c
    IN logSink(rawWrite(c1, [t |-> "raw", d |-> b]), "nrw")

\* gzip.NewWriterLevel(w, level) returns an error for an invalid level
NewWriterLevelErr(level) ==
    level < DefaultCompression \/ level > BestCompression

\* gzip.Writer.Write(p): returns (0, z.err) once an error has occurred;
\* the first Write sends the gzip header to w; the data is held by the
\* compressor until the writer is closed; an error is kept in z.err.
gzWrite(c, p) ==
    LET c0 == [c EXCEPT !.gz.in = Append(@, p)]
        c1 == IF c0.gz.wroteHeader
              THEN c0
              ELSE [rawWrite(c0, [t |-> "gzhdr", d |-> << >>])
                      EXCEPT !.gz.wroteHeader = TRUE]
        c2 == IF c.gz.err # "nil"
              THEN [c0 EXCEPT !.sret = [n |-> 0, err |-> c.gz.err]]
              ELSE IF c.fail
              THEN [c1 EXCEPT !.gz.err = "EIO",
                              !.sret = [n |-> 0, err |-> "EIO"]]
              ELSE [c1 EXCEPT !.gz.buf = @ \o p,
                              !.sret = [n |-> Len(p), err |-> "nil"]]
    IN logSink(c2, "gz")

\* gzip.Writer.Close(): returns z.err after an error and is a no-op on a
\* closed writer; otherwise sends the header if no Write did, the
\* compressed data, and the trailer (ISIZE).
gzClose(c) ==
    LET c0 == [c EXCEPT !.gz.closes = @ + 1]
    IN IF c.gz.err # "nil" \/ c.gz.closed
       THEN c0
       ELSE LET c1 == IF c0.gz.wroteHeader
                      THEN c0
                      ELSE [rawWrite(c0, [t |-> "gzhdr", d |-> << >>])
                              EXCEPT !.gz.wroteHeader = TRUE]
                c2 == rawWrite(c1, [t |-> "deflate", d |-> c1.gz.buf])
                c3 == rawWrite(c2, [t |-> "gztrl", d |-> <<Len(c1.gz.buf)>>])
            IN [c3 EXCEPT !.gz.closed = TRUE, !.gz.buf = << >>]

\* gzip.NewReader + ioutil.ReadAll on a recorded body: one gzip member
Gunzip(body) ==
    IF /\ Len(body) = 3
       /\ body[1].t = "gzhdr"
       /\ body[2].t = "deflate"
       /\ body[3].t = "gztrl"
       /\ body[3].d = <<Len(body[2].d)>>
    THEN [ok |-> TRUE, data |-> body[2].d]
    ELSE [ok |-> FALSE, data |-> << >>]

\* http.DetectContentType(b): never empty; the PNG signature starts 0x89
DetectContentType(b) ==
    IF Len(b) > 0 /\ b[1] = 137
    THEN "image/png"
    ELSE "text/plain; charset=utf-8"

----------------------------------------------------------------------------
(* The allow predicate (AllowCompressionFunc)                              *)

\* the predicates a handler is built with: none, the two of the tests and
\* one that decides on a response header, as the comment of New suggests
AllowKinds == {"nil", "true", "false", "noImages"}

allowCompression(c) ==
    CASE h.allowCompression = "true" -> TRUE
      [] h.allowCompression = "false" -> FALSE
      [] h.allowCompression = "noImages" ->
            Get(c.header, headerContentType) # "image/png"

----------------------------------------------------------------------------
(* gzipResponseWriter, revision "sub" (src/gzip/gzip.go)                   *)

\* compressContent without its test of grw.status
compressContentUnguarded(c) ==
    IF h.allowCompression = "nil"
    THEN hSet(hSet([c EXCEPT !.status = COMPRESSION_ENABLED],
                   headerContentEncoding, encodingGzip),
              headerVary, headerAcceptEncoding)
    ELSE LET ret == allowCompression(c)
             c1 == [c EXCEPT !.allowLog = Append(@, ret)]
         IN IF ret
            THEN hSet(hSet([c1 EXCEPT !.status = COMPRESSION_ENABLED],
                           headerContentEncoding, encodingGzip),
                      headerVary, headerAcceptEncoding)
            ELSE [c1 EXCEPT !.status = COMPRESSION_DISABLED]

\* compressContent: takes the decision on the first call.  The result of
\* the Go function is c.status = COMPRESSION_ENABLED of the returned record.
compressContent(c) ==
    IF c.status = COMPRESSION_UNDEFINED
    THEN IF h.allowCompression = "nil"
         THEN hSet(hSet([c EXCEPT !.status = COMPRESSION_ENABLED],
                        headerContentEncoding, encodingGzip),
                   headerVary, headerAcceptEncoding)
         ELSE LET ret == allowCompression(c)
                  c1 == [c EXCEPT !.allowLog = Append(@, ret)]
              IN IF ret
                 THEN hSet(hSet([c1 EXCEPT !.status = COMPRESSION_ENABLED],
                                headerContentEncoding, encodingGzip),
                           headerVary, headerAcceptEncoding)
                 ELSE [c1 EXCEPT !.status = COMPRESSION_DISABLED]
    ELSE c

\* subForward writing to the underlying writer as well when Enabled
subForwardBoth(c, b) ==
    LET c1 == IF c.status = COMPRESSION_ENABLED
              THEN gzWrite(nrwWrite(c, b), b)
              ELSE nrwWrite(c, b)
    IN [c1 EXCEPT !.ret = c1.sret]

\* the sink Write of revision "sub" forwards b to, after compressContent
subForward(c, b) ==
    LET c1 == IF c.status = COMPRESSION_ENABLED
              THEN gzWrite(c, b)
              ELSE nrwWrite(c, b)
    IN [c1 EXCEPT !.ret = c1.sret]

\* Write of revision "sub" detecting the Content-Type after the decision
subWriteSniffLate(c, b) ==
    LET c1 == compressContent(c)
        c2 == IF Get(c1.header, headerContentType) = ""
              THEN hSet(c1, headerContentType, DetectContentType(b))
              ELSE c1
    IN subForward(c2, b)

\* gzipResponseWriter.Write of revision "sub"
subWrite(c, b) ==
    LET c1 == IF Get(c.header, headerContentType) = ""
              THEN hSet(c, headerContentType, DetectContentType(b))
              ELSE c
    IN subForward(compressContent(c1), b)

\* revision "sub" has no WriteHeader of its own: the call is the embedded
\* negroni.ResponseWriter's
subWriteHeader(c, code) == nrwWriteHeader(c, code)

\* the deferred function of revision "sub" without its test of grw.status
subDeferredAlways(c) == hDel(gzClose(c), headerContentLength)

\* the deferred function of ServeHTTP, revision "sub"
subDeferred(c) ==
    IF c.status = COMPRESSION_ENABLED
    THEN hDel(gzClose(c), headerContentLength)
    ELSE c

----------------------------------------------------------------------------
(* gzipResponseWriter, revision "root" (src/unnamed/part_001)              *)

\* decide without its test of grw.status
decideUnguarded(c) ==
    IF h.allowCompression = "nil"
    THEN hSet(hSet(hDel([c EXCEPT !.status = COMPRESSION_ENABLED],
                        headerContentLength),
                   headerContentEncoding, encodingGzip),
              headerVary, headerAcceptEncoding)
    ELSE LET ret == allowCompression(c)
             c1 == [c EXCEPT !.allowLog = Append(@, ret)]
         IN IF ret
            THEN hSet(hSet(hDel([c1 EXCEPT !.status = COMPRESSION_ENABLED],
                                headerContentLength),
                           headerContentEncoding, encodingGzip),
                      headerVary, headerAcceptEncoding)
            ELSE [c1 EXCEPT !.status = COMPRESSION_DISABLED]

\* decide enabling compression whatever the allow predicate answers
decideIgnoringAnswer(c) ==
    IF c.status = COMPRESSION_CHECK
    THEN LET c1 == IF h.allowCompression = "nil"
                   THEN c
                   ELSE [c EXCEPT !.allowLog =
                                     Append(@, allowCompression(c))]
         IN hSet(hSet(hDel([c1 EXCEPT !.status = COMPRESSION_ENABLED],
                           headerContentLength),
                      headerContentEncoding, encodingGzip),
                 headerVary, headerAcceptEncoding)
    ELSE c

\* the decision taken inside WriteHeader while the status is
\* COMPRESSION_CHECK
decide(c) ==
    IF c.status = COMPRESSION_CHECK
    THEN IF h.allowCompression = "nil"
         THEN hSet(hSet(hDel([c EXCEPT !.status = COMPRESSION_ENABLED],
                             headerContentLength),
                        headerContentEncoding, encodingGzip),
                   headerVary, headerAcceptEncoding)
         ELSE LET ret == allowCompression(c)
                  c1 == [c EXCEPT !.allowLog = Append(@, ret)]
              IN IF ret
                 THEN hSet(hSet(hDel([c1 EXCEPT
                                        !.status = COMPRESSION_ENABLED],
                                     headerContentLength),
                                headerContentEncoding, encodingGzip),
                           headerVary, headerAcceptEncoding)
                 ELSE [c1 EXCEPT !.status = COMPRESSION_DISABLED]
    ELSE c

\* gzipResponseWriter.WriteHeader
WriteHeader(c, code) == nrwWriteHeader(decide(c), code)

\* rootForward with the two sinks exchanged
rootForwardSwapped(c, b) ==
    LET c1 == IF c.status = COMPRESSION_ENABLED
              THEN nrwWrite(c, b)
              ELSE gzWrite(c, b)
    IN [c1 EXCEPT !.ret = c1.sret]

\* rootForward reporting success whatever the sink returned
rootForwardSwallowing(c, b) ==
    LET c1 == IF c.status = COMPRESSION_ENABLED
              THEN gzWrite(c, b)
              ELSE nrwWrite(c, b)
    IN [c1 EXCEPT !.ret = [n |-> Len(b), err |-> "nil"]]

\* the sink Write of revision "root" forwards b to
rootForward(c, b) ==
    LET c1 == IF c.status = COMPRESSION_ENABLED
              THEN gzWrite(c, b)
              ELSE nrwWrite(c, b)
    IN [c1 EXCEPT !.ret = c1.sret]

\* gzipResponseWriter.Write
Write(c, b) ==
    LET c1 == IF c.status = COMPRESSION_CHECK
              THEN LET c0 == IF Get(c.header, headerContentType) = ""
                             THEN hSet(c, headerContentType,
                                       DetectContentType(b))
                             ELSE c
                   IN WriteHeader(c0, StatusOK)
              ELSE c
    IN rootForward(c1, b)

\* the deferred function closing gz whatever grw.status is
rootDeferredAlways(c) == gzClose(c)

\* the deferred function of ServeHTTP
rootDeferred(c) ==
    IF c.status = COMPRESSION_ENABLED
    THEN gzClose(c)
    ELSE c

----------------------------------------------------------------------------
(* handler.ServeHTTP: the same in both revisions up to the deferred        *)
(* function                                                                *)

\* ServeHTTP without its Accept-Encoding check
SkipNoGzipNever == FALSE

\* Skip compression if the client doesn't accept gzip encoding.
SkipNoGzip == ~Contains(req.ae, encodingGzip)

\* ServeHTTP without its Sec-WebSocket-Key check
SkipWebSocketNever == FALSE

\* Skip compression if client attempt WebSocket connection
SkipWebSocket == req.ws # ""

\* Skip compression if already compressed
SkipEncoded == Get(header, headerContentEncoding) = encodingGzip

\* ServeHTTP going on with the writer of a failed NewWriterLevel
SkipInvalidLevelNever == FALSE

\* Skip compression if an invalid compression level was set.
SkipInvalidLevel == NewWriterLevelErr(h.compressionLevel)

\* whether ServeHTTP hands the original writer to next
Skip == SkipNoGzip \/ SkipWebSocket \/ SkipEncoded \/ SkipInvalidLevel

\* the calls of next with the return after the first one missing
CallSitesNoReturn ==
    (IF SkipNoGzip THEN <<"w">> ELSE << >>) \o
    (IF SkipWebSocket THEN <<"w">>
     ELSE IF SkipEncoded THEN <<"w">>
     ELSE IF SkipInvalidLevel THEN <<"w">>
     ELSE <<"grw">>)

\* the calls of next that ServeHTTP makes along its path, in order, each
\* with the writer it passes: every skip branch calls next(w, r) and
\* returns; the last statement calls next(&grw, r)
CallSites ==
    IF SkipNoGzip THEN <<"w">>
    ELSE IF SkipWebSocket THEN <<"w">>
    ELSE IF SkipEncoded THEN <<"w">>
    ELSE IF SkipInvalidLevel THEN <<"w">>
    ELSE <<"grw">>

\* ServeHTTP up to its call of next
ServeHTTP ==
    /\ pc = "start"
    /\ pc' = "next"
    /\ nextCalls' = nextCalls + Len(CallSites)
    /\ arg' = CallSites[Len(CallSites)]
    /\ IF Skip
       THEN UNCHANGED <<gz, status>>
       ELSE /\ gz' = [gz EXCEPT !.made = TRUE]
            /\ status' = COMPRESSION_UNDEFINED
    /\ UNCHANGED <<impl, req, h, header0, panicked, header, w, nrw, allowLog,
                   mut, written, ncalls, lastCall, wret, sinkLog, wcalled>>

\* what the deferred function does when next has returned
Deferred(c) ==
    IF arg = "grw"
    THEN IF impl = "root" THEN rootDeferred(c) ELSE subDeferred(c)
    ELSE c

\* next returns; the deferred function runs; ServeHTTP returns
NextReturns ==
    /\ pc = "next"
    /\ pc' = "done"
    /\ Commit(Deferred(Ctx))
    /\ UNCHANGED <<impl, req, h, header0, panicked, arg, nextCalls, written,
                   ncalls, lastCall, wcalled>>

----------------------------------------------------------------------------
(* The next handler: any sequence of calls on the writer it was given      *)

\* chunks next writes: text, and the start of a PNG file
Chunks == {<<70, 111>>, <<137, 80>>}

\* headers next sets
HeaderSets ==
    {<<headerContentLength, "21">>,
     <<headerContentEncoding, encodingGzip>>,
     <<headerContentType, "application/json">>}

Codes == {StatusOK, 404}

\* dispatch of a WriteHeader call on the writer next holds
DoWriteHeader(c, code) ==
    IF arg = "grw"
    THEN IF impl = "root" THEN WriteHeader(c, code)
                          ELSE subWriteHeader(c, code)
    ELSE rawWriteHeader(c, code)

\* dispatch of a Write call on the writer next holds
DoWrite(c, b) ==
    IF arg = "grw"
    THEN IF impl = "root" THEN Write(c, b) ELSE subWrite(c, b)
    ELSE LET c1 == rawWrite(c, [t |-> "raw", d |-> b])
         IN [c1 EXCEPT !.ret = c1.sret]

\* next calls w.Header().Set(k, v)
CallHeaderSet ==
    /\ pc = "next"
    /\ ncalls < MaxCalls
    /\ \E kv \in HeaderSets :
          /\ header' = Set(header, kv[1], kv[2])
          /\ lastCall' = "Set"
    /\ ncalls' = ncalls + 1
    /\ UNCHANGED <<impl, req, h, header0, panicked, pc, arg, nextCalls, status,
                   gz, w, nrw, allowLog, mut, written, wret, sinkLog,
                   wcalled>>

\* next calls w.WriteHeader(code)
CallWriteHeader ==
    /\ pc = "next"
    /\ ncalls < MaxCalls
    /\ \E code \in Codes : Commit(DoWriteHeader(Ctx, code))
    /\ lastCall' = "WriteHeader"
    /\ ncalls' = ncalls + 1
    /\ wcalled' = TRUE
    /\ UNCHANGED <<impl, req, h, header0, panicked, pc, arg, nextCalls, written>>

\* next calls w.Write(b)
CallWrite ==
    /\ pc = "next"
    /\ ncalls < MaxCalls
    /\ \E b \in Chunks :
          /\ Commit(DoWrite(Ctx, b))
          /\ written' = Append(written, b)
    /\ lastCall' = "Write"
    /\ ncalls' = ncalls + 1
    /\ wcalled' = TRUE
    /\ UNCHANGED <<impl, req, h, header0, panicked, pc, arg, nextCalls>>

----------------------------------------------------------------------------
(* One request/response cycle                                              *)

AcceptEncodings == {"", "br", "gzip", "br, gzip"}
Levels == {DefaultCompression, gzipInvalidCompressionLevel}

Init ==
    /\ impl \in {"root", "sub"}
    /\ req \in [ae : AcceptEncodings, ws : {"", gzipTestWebSocketKey}]
    /\ h \in [compressionLevel : Levels, allowCompression : AllowKinds]
    /\ pc = "start"
    /\ arg = "none"
    /\ nextCalls = 0
    /\ status = COMPRESSION_UNDEFINED
    /\ \E ce \in {"", encodingGzip} :
          header = [k \in ResponseHeaders |->
                      IF k = headerContentEncoding THEN ce ELSE ""]
    /\ header0 = header
    /\ gz = [made |-> FALSE, wroteHeader |-> FALSE, closed |-> FALSE,
             closes |-> 0, in |-> << >>, buf |-> << >>, err |-> "nil"]
    /\ w = [wroteHeader |-> FALSE, code |-> 0, whCalls |-> 0,
            sent |-> [k \in ResponseHeaders |-> ""], body |-> << >>]
    /\ nrw = [status |-> 0]
    /\ allowLog = << >>
    /\ mut = << >>
    /\ written = << >>
    /\ ncalls = 0
    /\ lastCall = "none"
    /\ wret = [n |-> 0, err |-> "nil"]
    /\ sinkLog = << >>
    /\ panicked = FALSE
    /\ wcalled = FALSE

Next ==
    \/ ServeHTTP
    \/ CallHeaderSet
    \/ CallWriteHeader
    \/ CallWrite
    \/ NextReturns

Spec == Init /\ [][Next]_vars

----------------------------------------------------------------------------
(* The same cycle with failures: the sink of a Write returns an error, or  *)
(* next panics                                                             *)

\* next calls w.Write(b) and the sink the call reaches returns an error
CallWriteFailing ==
    /\ pc = "next"
    /\ ncalls < MaxCalls
    /\ \E b \in Chunks :
          /\ Commit(DoWrite([Ctx EXCEPT !.fail = TRUE], b))
          /\ written' = Append(written, b)
    /\ lastCall' = "Write"
    /\ ncalls' = ncalls + 1
    /\ wcalled' = TRUE
    /\ UNCHANGED <<impl, req, h, header0, panicked, pc, arg, nextCalls>>

\* what runs of ServeHTTP when next panics: no deferred function at all
OnPanicNothing(c) == c

\* what runs of ServeHTTP when next panics: its deferred function
OnPanic(c) == Deferred(c)

\* whether the deferred function calls recover(): it does not
DeferredRecovers == FALSE

\* next panics; the deferred function runs; the panic leaves ServeHTTP
NextPanics ==
    /\ pc = "next"
    /\ panicked' = TRUE
    /\ Commit(OnPanic(Ctx))
    /\ pc' = IF DeferredRecovers THEN "done" ELSE "panicked"
    /\ UNCHANGED <<impl, req, h, header0, arg, nextCalls, written, ncalls,
                   lastCall, wcalled>>

NextFaults ==
    \/ Next
    \/ CallWriteFailing
    \/ NextPanics

SpecFaults == Init /\ [][NextFaults]_vars

----------------------------------------------------------------------------
(* Vocabulary of the properties                                            *)

RECURSIVE Flat(_)
\* the bytes of a sequence of chunks, in order
Flat(chunks) ==
    IF chunks = << >> THEN << >> ELSE Head(chunks) \o Flat(Tail(chunks))

\* every body write that reached w was a direct (unencoded) one
RawOnly(body) == \A i \in 1..Len(body) : body[i].t = "raw"

\* the chunks that reached w, in order
BodyChunks(body) == [i \in 1..Len(body) |-> body[i].d]

\* the body w received is exactly the chunks next wrote, unencoded
PassedThrough == RawOnly(w.body) /\ BodyChunks(w.body) = written

\* the compression header mutations of the decision
CompressionMutations ==
    {<<"Set", headerContentEncoding>>, <<"Set", headerVary>>,
     <<"Del", headerContentLength>>}

\* the allow predicate is absent or has returned true
Allowed == h.allowCompression = "nil" \/ allowLog = <<TRUE>>

\* next makes a Write or WriteHeader call in this step
WriteOrWriteHeaderStep ==
    /\ pc = "next"
    /\ ncalls' = ncalls + 1
    /\ lastCall' \in {"Write", "WriteHeader"}

----------------------------------------------------------------------------
(* C1 *)

\* what C1 promises of a finished cycle: the codec received exactly the
\* chunks next wrote, no chunk went to w directly, the codec was finalized
\* after the last chunk, and the body decodes to the bytes next wrote
C1_Outcome ==
    /\ gz.in = written
    /\ \A i \in 1..Len(w.body) : w.body[i].t # "raw"
    /\ gz.closed /\ gz.closes = 1
    /\ w.body[Len(w.body)].t = "gztrl"
    /\ Gunzip(w.body).ok
    /\ Gunzip(w.body).data = Flat(written)

\* C1 as stated: for every request whose Accept-Encoding contains "gzip",
\* without Sec-WebSocket-Key, with a valid level and no allow predicate (or
\* one returning true), when next has written at least one chunk, the
\* finished cycle has the C1 outcome.
C1_AsStated ==
    ( /\ pc = "done"
      /\ Contains(req.ae, encodingGzip)
      /\ req.ws = ""
      /\ ~NewWriterLevelErr(h.compressionLevel)
      /\ (Allowed \/ h.allowCompression = "true")
      /\ Len(written) >= 1 )
    => C1_Outcome

\* C1 amended: the same, for responses that do not already carry
\* Content-Encoding: gzip when ServeHTTP is entered.
C1_Roundtrip ==
    ( /\ pc = "done"
      /\ Contains(req.ae, encodingGzip)
      /\ req.ws = ""
      /\ ~NewWriterLevelErr(h.compressionLevel)
      /\ Get(header0, headerContentEncoding) # encodingGzip
      /\ (Allowed \/ h.allowCompression = "true")
      /\ Len(written) >= 1 )
    => C1_Outcome

\* a finished compressed cycle in which next wrote two different chunks
C1_Witness ==
    /\ pc = "done"
    /\ Contains(req.ae, encodingGzip)
    /\ req.ws = ""
    /\ ~NewWriterLevelErr(h.compressionLevel)
    /\ Get(header0, headerContentEncoding) # encodingGzip
    /\ Allowed
    /\ Len(written) = 2
    /\ written[1] # written[2]
    /\ Gunzip(w.body).data = written[1] \o written[2]

----------------------------------------------------------------------------
(* C2, C3, C6: the paths on which ServeHTTP hands the original writer on   *)

\* the cycle is a pure pass-through: next holds the original writer, was
\* called once, the body w received is what next wrote, the package changed
\* no header, built no codec writer, wrote nothing through one and did not
\* evaluate the allow predicate
Untouched ==
    /\ arg = "w"
    /\ nextCalls = 1
    /\ PassedThrough
    /\ mut = << >>
    /\ ~gz.made /\ gz.in = << >> /\ gz.closes = 0
    /\ allowLog = << >>
    /\ status # COMPRESSION_ENABLED

\* C2: for every request whose Accept-Encoding does not contain "gzip",
\* next is called with the original writer, the body reaching the sink is
\* exactly what next wrote, the handler adds or removes no header, builds
\* no codec writer and never evaluates the allow predicate.
C2_NoGzipPassThrough ==
    (pc # "start" /\ ~Contains(req.ae, encodingGzip)) => Untouched

\* a finished cycle without gzip in Accept-Encoding, otherwise eligible,
\* in which next set Content-Length and wrote two chunks
C2_Witness ==
    /\ pc = "done"
    /\ req.ae = "br"
    /\ req.ws = ""
    /\ h = [compressionLevel |-> DefaultCompression,
            allowCompression |-> "true"]
    /\ Get(header0, headerContentEncoding) = ""
    /\ Get(header, headerContentLength) = "21"
    /\ Len(written) = 2
    /\ Untouched

\* C3: for every request with a non-empty Sec-WebSocket-Key, whatever its
\* Accept-Encoding and the allow predicate, the state never becomes
\* Enabled: next holds the original writer, nothing goes through the codec,
\* the handler sets no Content-Encoding and the body is what next wrote.
C3_WebSocketNeverCompressed ==
    (pc # "start" /\ req.ws # "") =>
        /\ Untouched
        /\ <<"Set", headerContentEncoding>> \notin
              {mut[i] : i \in 1..Len(mut)}

\* a finished WebSocket cycle that accepts gzip, in which next wrote
C3_Witness ==
    /\ pc = "done"
    /\ req.ws = gzipTestWebSocketKey
    /\ req.ae = "gzip"
    /\ h = [compressionLevel |-> DefaultCompression,
            allowCompression |-> "nil"]
    /\ Get(header0, headerContentEncoding) = ""
    /\ Len(written) = 2
    /\ w.wroteHeader
    /\ Get(w.sent, headerContentEncoding) = ""

\* C6: when gzip.NewWriterLevel fails (invalid level given to New),
\* ServeHTTP calls next exactly once with the original writer and returns:
\* the body is what next wrote, the handler changes no header, the allow
\* predicate is never evaluated and no codec byte reaches the sink.  New
\* accepts every level: Init builds handlers with the invalid one.
C6_InvalidLevelPassThrough ==
    (pc # "start" /\ NewWriterLevelErr(h.compressionLevel)) => Untouched

\* a finished cycle with the invalid level of the tests on a request that
\* would otherwise be compressed
C6_Witness ==
    /\ pc = "done"
    /\ h.compressionLevel = gzipInvalidCompressionLevel
    /\ h.allowCompression = "true"
    /\ req = [ae |-> "gzip", ws |-> ""]
    /\ Get(header0, headerContentEncoding) = ""
    /\ Len(written) >= 1
    /\ nextCalls = 1
    /\ BodyChunks(w.body) = written

----------------------------------------------------------------------------
(* C4 *)

\* C4: once the allow predicate has returned false (on a request that was
\* otherwise eligible, or it would not have been called), whatever calls
\* next makes: the state is Disabled, every chunk went unmodified to the
\* underlying writer, nothing was written to or finalized on the codec
\* writer, and the package set no Content-Encoding, set no Vary and deleted
\* no Content-Length.
C4_DeniedPassThrough ==
    (allowLog # << >> /\ allowLog[1] = FALSE) =>
        /\ status = COMPRESSION_DISABLED
        /\ PassedThrough
        /\ gz.in = << >> /\ ~gz.wroteHeader
        /\ gz.closes = 0 /\ ~gz.closed
        /\ {mut[i] : i \in 1..Len(mut)} \cap CompressionMutations = {}

\* a finished cycle in which the header-reading predicate refused a PNG
\* body and the Content-Length next had set went out with the response
C4_Witness ==
    /\ pc = "done"
    /\ h.allowCompression = "noImages"
    /\ allowLog = <<FALSE>>
    /\ Len(written) = 2
    /\ Get(w.sent, headerContentLength) = "21"
    /\ Get(w.sent, headerContentEncoding) = ""
    /\ status = COMPRESSION_DISABLED

----------------------------------------------------------------------------
(* C5 *)

\* C5 as stated: when the allow predicate returns true (or is nil) on an
\* eligible request and next writes at least one chunk, then for every
\* order of header sets, WriteHeader and Write the header set the response
\* goes out with has no Content-Length, has Content-Encoding: gzip and has
\* Vary: Accept-Encoding.
C5_AsStated ==
    ( /\ pc = "done"
      /\ arg = "grw"
      /\ Allowed
      /\ Len(written) >= 1 )
    => /\ Get(w.sent, headerContentLength) = ""
       /\ Get(w.sent, headerContentEncoding) = encodingGzip
       /\ Get(w.sent, headerVary) = headerAcceptEncoding

----------------------------------------------------------------------------
(* C7 *)

\* C7 as stated: when Content-Encoding is "gzip" on the response headers
\* at the first Write or WriteHeader call of next (set before ServeHTTP
\* ran, or by next through the writer it was given), that call does not
\* enable compression and hands nothing to the codec.
C7_AsStated ==
    [][ ( /\ WriteOrWriteHeaderStep
          /\ written = << >> /\ w.whCalls = 0
          /\ Get(header, headerContentEncoding) = encodingGzip )
        => (status' # COMPRESSION_ENABLED /\ gz'.in = << >>) ]_vars

----------------------------------------------------------------------------
(* C8 *)

\* C8 as stated: in every finished cycle in which ServeHTTP built a
\* decision writer with a non-nil allow predicate, the predicate was
\* invoked exactly once, whatever calls next made (none included).
C8_AsStated ==
    (pc = "done" /\ arg = "grw" /\ h.allowCompression # "nil")
    => Len(allowLog) = 1

\* C8 amended: with a decision writer and a non-nil allow predicate, the
\* predicate is invoked at most once, at the decision transition: exactly
\* once as soon as next has called Write (in the revision whose writer
\* overrides WriteHeader, Write or WriteHeader), and not at all while next
\* has called neither.
C8_AtMostOnce ==
    (arg = "grw" /\ h.allowCompression # "nil") =>
        /\ Len(allowLog) <= 1
        /\ Len(allowLog) = 1 <=> status # COMPRESSION_UNDEFINED
        /\ written # << >> => Len(allowLog) = 1
        /\ (impl = "root" /\ w.whCalls >= 1) => Len(allowLog) = 1
        /\ (written = << >> /\ w.whCalls = 0) => Len(allowLog) = 0

\* a finished cycle with a predicate in which next called WriteHeader twice
\* and Write twice, and the predicate ran once
C8_Witness ==
    /\ pc = "done"
    /\ arg = "grw"
    /\ h.allowCompression # "nil"
    /\ Len(written) = 2
    /\ ncalls = 4
    /\ w.whCalls >= 2
    /\ Len(allowLog) = 1

----------------------------------------------------------------------------
(* C9 *)

\* C9: a Write or WriteHeader call on the decision writer made when the
\* decision is already taken does not evaluate the allow predicate, makes
\* none of the package's header mutations (Content-Encoding, Vary,
\* Content-Length) again, and leaves the decision state and the header map
\* as they were.
C9_SecondCallIdempotent ==
    [][ ( /\ WriteOrWriteHeaderStep
          /\ arg = "grw"
          /\ status # COMPRESSION_UNDEFINED )
        => /\ allowLog' = allowLog
           /\ mut' = mut
           /\ status' = status
           /\ header' = header ]_vars

\* the decision was taken by an earlier call with a predicate that answered
\* true, Content-Length was set again since, and a further Write or
\* WriteHeader call has just returned
C9_Witness ==
    /\ pc = "next"
    /\ arg = "grw"
    /\ allowLog = <<TRUE>>
    /\ status = COMPRESSION_ENABLED
    /\ lastCall \in {"Write", "WriteHeader"}
    /\ ncalls = 3
    /\ Len(written) + w.whCalls >= 2
    /\ Get(header, headerContentLength) = "21"
    /\ <<"Del", headerContentLength>> \in {mut[i] : i \in 1..Len(mut)}

----------------------------------------------------------------------------
(* C10 *)

\* C10: gz is closed if and only if the state is Enabled when next has
\* returned: exactly once then, and not at all when the state is Disabled
\* or still Undecided, in which case no codec byte reaches the sink.  The
\* close comes after the last body write of next (never while next runs)
\* and never twice; the trailer it writes ends the body.
C10_CloseIffEnabled ==
    /\ pc # "done" => (gz.closes = 0 /\ ~gz.closed)
    /\ pc = "done" =>
          /\ gz.closes <= 1
          /\ gz.closes = 1 <=> (arg = "grw" /\ status = COMPRESSION_ENABLED)
          /\ gz.closed <=> gz.closes = 1
          /\ gz.closes = 1 => w.body[Len(w.body)].t = "gztrl"
    /\ status # COMPRESSION_ENABLED => RawOnly(w.body)
    /\ Cardinality({i \in 1..Len(w.body) : w.body[i].t = "gztrl"}) <= 1

\* a finished cycle that was Enabled by a WriteHeader call alone, in the
\* revision that overrides it, so that the close itself sends the gzip
\* header, the (empty) data and the trailer
C10_Witness ==
    /\ pc = "done"
    /\ impl = "root"
    /\ status = COMPRESSION_ENABLED
    /\ written = << >>
    /\ gz.closes = 1
    /\ Len(w.body) = 3
    /\ Gunzip(w.body).ok

----------------------------------------------------------------------------
(* C11 *)

\* C11: if next panics at any point after compression was enabled, body
\* chunks already handed to the codec or not, gz.Close has been called
\* exactly once when ServeHTTP is left (and, unless a codec write had
\* failed, the gzip stream is complete), and the panic goes on to the
\* caller: the cycle never ends as a normal return.
C11_CloseOnPanic ==
    /\ panicked => pc = "panicked"
    /\ pc = "next" => gz.closes = 0
    /\ (pc = "panicked" /\ arg = "grw" /\ status = COMPRESSION_ENABLED) =>
          /\ gz.closes = 1
          /\ gz.err = "nil" => (gz.closed /\ Gunzip(w.body).ok
                                /\ Gunzip(w.body).data = Flat(written))
    /\ (pc = "panicked" /\ status # COMPRESSION_ENABLED) => gz.closes = 0

\* next panicked after two chunks had gone to the codec
C11_Witness ==
    /\ pc = "panicked"
    /\ panicked
    /\ status = COMPRESSION_ENABLED
    /\ Len(written) = 2
    /\ gz.in = written
    /\ gz.closes = 1
    /\ Gunzip(w.body).ok

----------------------------------------------------------------------------
(* C12 *)

\* C12: the decision state of a decision writer starts Undecided and makes
\* at most one transition: once Enabled or Disabled it keeps that value
\* through every later call of the cycle, whatever the headers are then
\* and whatever the predicate would answer then.
C12_DecisionTerminal ==
    [][ /\ pc = "start" => status' = COMPRESSION_UNDEFINED
        /\ status # COMPRESSION_UNDEFINED => status' = status ]_vars

\* the predicate refused a PNG body; next then set a Content-Type for which
\* the predicate would answer true and wrote again: still Disabled
C12_Witness ==
    /\ arg = "grw"
    /\ h.allowCompression = "noImages"
    /\ allowLog = <<FALSE>>
    /\ status = COMPRESSION_DISABLED
    /\ Get(header, headerContentType) = "application/json"
    /\ Len(written) = 2
    /\ lastCall = "Write"

----------------------------------------------------------------------------
(* C13 *)

\* C13 as stated: the decision is triggered by whichever of WriteHeader and
\* Write next calls first on the decision writer: when such a call returns
\* the state is no longer Undecided, so no status line is committed to the
\* underlying writer while the state is Undecided.
C13_AsStated ==
    [][ (WriteOrWriteHeaderStep /\ arg = "grw") =>
           /\ status' # COMPRESSION_UNDEFINED
           /\ w'.wroteHeader => status' # COMPRESSION_UNDEFINED ]_vars

----------------------------------------------------------------------------
(* C14 *)

\* C14 as stated: once next has made a WriteHeader or Write call on the
\* decision writer, the status line has been committed to the underlying
\* writer and WriteHeader has been forwarded to it no more than once: a
\* second explicit WriteHeader, or a Write after a WriteHeader, forwards no
\* second commit.
C14_AsStated ==
    (arg = "grw" /\ (written # << >> \/ w.whCalls >= 1)) =>
        (w.wroteHeader /\ w.whCalls <= 1)

----------------------------------------------------------------------------
(* C15 *)

\* C15 as stated: whenever body bytes have been handed to the codec, the
\* headers are already committed to the underlying writer, and the
\* committed headers have Content-Encoding: gzip, Vary: Accept-Encoding and
\* no Content-Length.
C15_AsStated ==
    gz.in # << >> =>
        /\ w.wroteHeader
        /\ Get(w.sent, headerContentEncoding) = encodingGzip
        /\ Get(w.sent, headerVary) = headerAcceptEncoding
        /\ Get(w.sent, headerContentLength) = ""

----------------------------------------------------------------------------
(* C16 *)

\* next makes a Write call on the decision writer in this step
GrwWriteStep ==
    /\ pc = "next"
    /\ arg = "grw"
    /\ ncalls' = ncalls + 1
    /\ lastCall' = "Write"

\* the Write of this step set Content-Type to the type detected from its
\* chunk, as the first of the header mutations it made and before the
\* allow predicate (which reads the header) was evaluated
SniffedFirst ==
    /\ Get(header', headerContentType) =
          DetectContentType(written'[Len(written')])
    /\ Len(mut') > Len(mut)
    /\ mut'[Len(mut) + 1] = <<"Set", headerContentType>>
    /\ (h.allowCompression = "noImages" /\ status = COMPRESSION_UNDEFINED) =>
          allowLog' = <<Get(header', headerContentType) # "image/png">>

----------------------------------------------------------------------------
(* C17 *)

\* the sink the body chunks of this cycle go to in the current state
SinkOfState == IF status = COMPRESSION_ENABLED THEN "gz" ELSE "nrw"

\* no chunk reached w directly
NoneRaw(body) == \A i \in 1..Len(body) : body[i].t # "raw"

\* C17: every body Write on the decision writer is forwarded to exactly one
\* sink, the codec writer iff the state after the decision is Enabled and
\* otherwise unmodified the underlying writer; all body chunks of a cycle go
\* to the same sink.
C17_OneSinkByState ==
    arg = "grw" =>
       /\ Len(sinkLog) = Len(written)
       /\ \A i \in 1..Len(sinkLog) : sinkLog[i].to = SinkOfState
       /\ written # << >> => status # COMPRESSION_UNDEFINED
       /\ status = COMPRESSION_ENABLED =>
             /\ gz.in = written
             /\ NoneRaw(w.body)
       /\ status # COMPRESSION_ENABLED =>
             /\ gz.in = << >>
             /\ PassedThrough

\* three chunks went to the codec writer and none to the underlying writer
C17_Witness ==
    /\ arg = "grw"
    /\ status = COMPRESSION_ENABLED
    /\ Len(written) = 3
    /\ gz.in = written
    /\ \A i \in 1..3 : sinkLog[i].to = "gz"
    /\ pc = "next"

----------------------------------------------------------------------------
(* C18 *)

\* C18: when the sink a body Write is forwarded to returns an error, Write
\* returns exactly that byte count and error; the sink is called once for
\* the Write (no retry), it is the sink of the state (no redirection to the
\* other one), and the decision state is what it was, or what the decision
\* of this Write made it, failure or not.
C18_ErrorSurfaced ==
    [][ GrwWriteStep =>
          LET e == sinkLog'[Len(sinkLog')]
          IN /\ Len(sinkLog') = Len(sinkLog) + 1
             /\ e.err # "nil" =>
                   /\ wret' = [n |-> e.n, err |-> e.err]
                   /\ e.to = IF status' = COMPRESSION_ENABLED
                             THEN "gz" ELSE "nrw"
                   /\ status # COMPRESSION_UNDEFINED => status' = status
                   /\ status = COMPRESSION_UNDEFINED =>
                         status' = IF \/ h.allowCompression = "nil"
                                      \/ allowLog' = <<TRUE>>
                                   THEN COMPRESSION_ENABLED
                                   ELSE COMPRESSION_DISABLED ]_vars

\* a second Write failed on the underlying writer after a first one had
\* succeeded, and the caller got the error
C18_Witness ==
    /\ arg = "grw"
    /\ status = COMPRESSION_DISABLED
    /\ Len(written) = 2
    /\ Len(w.body) = 1
    /\ sinkLog[1].err = "nil"
    /\ sinkLog[2] = [to |-> "nrw", n |-> 0, err |-> "EIO"]
    /\ wret = [n |-> 0, err |-> "EIO"]

----------------------------------------------------------------------------
(* C19 *)

\* C19: if next returns without having called Write or WriteHeader on the
\* decision writer, the state is still Undecided when ServeHTTP finishes,
\* the allow predicate was not evaluated, the handler added and removed no
\* header (the header map is as next left it), no status line was
\* committed, and no byte, codec framing included, was written to the sink.
C19_SilentCycleNoEffect ==
    [][ (pc = "next" /\ pc' = "done" /\ arg = "grw" /\ ~wcalled) =>
          /\ status' = COMPRESSION_UNDEFINED
          /\ allowLog' = << >>
          /\ header' = header
          /\ mut' = << >>
          /\ Get(header', headerVary) = Get(header0, headerVary)
          /\ ~w'.wroteHeader /\ w'.whCalls = 0 /\ nrw'.status = 0
          /\ w'.body = << >>
          /\ ~gz'.wroteHeader /\ gz'.closes = 0 /\ gz'.in = << >> ]_vars

\* next has set Content-Length, written nothing, and returned
C19_Witness ==
    /\ pc = "done"
    /\ arg = "grw"
    /\ ~wcalled
    /\ ncalls >= 1
    /\ Get(header, headerContentLength) = "21"
    /\ status = COMPRESSION_UNDEFINED
    /\ w.body = << >>

----------------------------------------------------------------------------
(* C20 *)

\* the request and the handler make ServeHTTP take one of its skip paths
SkipPath ==
    \/ ~Contains(req.ae, encodingGzip)
    \/ req.ws # ""
    \/ Get(header0, headerContentEncoding) = encodingGzip
    \/ h.compressionLevel = gzipInvalidCompressionLevel

\* C20: on every path through ServeHTTP next is invoked exactly once; it
\* receives the original response writer on the four skip paths and the
\* decision writer only on the last path.
C20_NextOnceRightWriter ==
    /\ pc = "start" => (nextCalls = 0 /\ arg = "none")
    /\ pc # "start" =>
          /\ nextCalls = 1
          /\ arg = IF SkipPath THEN "w" ELSE "grw"

\* ServeHTTP has finished, having called next once with the original
\* writer because of the response's Content-Encoding alone
C20_Witness ==
    /\ pc = "done"
    /\ nextCalls = 1
    /\ arg = "w"
    /\ Contains(req.ae, encodingGzip)
    /\ req.ws = ""
    /\ h.compressionLevel = DefaultCompression
    /\ Get(header0, headerContentEncoding) = encodingGzip

====
